---- MODULE Spec2Model ----
(***************************************************************************)
(* Model of the Baidu Pan uploader of backup-to-cloud (src/src/baidu.rs):  *)
(* the OAuth2 token lifecycle (load, validity, refresh, interactive        *)
(* authorization, persistence) and the chunked upload protocol             *)
(* (block list, precreate, chunk loop, create).                            *)
(*                                                                         *)
(* The program is single-threaded and blocking.  The model has one step    *)
(* per blocking interaction (HTTP response, stdin line, file open/write)   *)
(* and one step per function return; pc is the position in the code and    *)
(* stack holds the positions the pending calls return to.                  *)
(*                                                                         *)
(* Option<T> is a sequence of length at most one: None is << >> and        *)
(* Some(x) is <<x>>.                                                       *)
(***************************************************************************)
EXTENDS Integers, Sequences, FiniteSets, TLC

\* ------------------------------------------------------------------ bounds
\* Largest clock value.
MaxTime == 2
\* Access and refresh tokens are the strings 1..MaxTok.
MaxTok == 2
\* The vendor reports expires_in within MaxSlack of the safety margin.
MaxSlack == 1
\* Largest local file, in bytes.
MaxFileSize == 5
\* Longest run of whitespace around the value of an environment variable.
MaxPad == 1
\* Largest number of backup items in the configuration.
MaxItems == 2

\* --------------------------------------------------------- program constants
\* const CHUNK_SIZE: usize = 4 * 1024 * 1024, scaled down to 2 bytes.
CHUNK_SIZE == 2
\* Duration::seconds(token_response.expires_in - 300)
SafetyMargin == 300

None == << >>
Some(x) == <<x>>
IsSome(o) == Len(o) = 1
Unwrap(o) == o[1]

Tokens == 1..MaxTok
OptToken == {None} \cup {Some(t) : t \in Tokens}
ExpiresIn == (SafetyMargin - MaxSlack)..(SafetyMargin + MaxSlack)

\* struct TokenData
TokenData(a, r, e) == [access_token |-> a, refresh_token |-> r, expires_at |-> e]

\* The token store file: absent, unparsable (garbage from outside, empty after
\* a truncating open, partial after a failed write) or the JSON of a TokenData.
StoreAbsent == [kind |-> "absent", cred |-> None]
StoreGarbage == [kind |-> "garbage", cred |-> None]
StoreEmpty == [kind |-> "empty", cred |-> None]
StorePartial == [kind |-> "partial", cred |-> None]
StoreJson(td) == [kind |-> "json", cred |-> Some(td)]

\* Result<T>: Ok(val) or Err(err).
Ok(v) == [ok |-> TRUE, val |-> v, err |-> ""]
Err(e) == [ok |-> FALSE, val |-> 0, err |-> e]

\* One entry of the trace of the current operation: a function call, the
\* prompt, a warn! line, an HTTP request with the fields the code puts in it,
\* or the answer to a request of upload() (code: errno or HTTP status, -1 when
\* no answer could be decoded).
Ev(k) == [kind |-> k, tok |-> 0, partseq |-> 0, data |-> << >>, size |-> 0,
          bl |-> << >>, code |-> 0]
Resp(k, c) == [Ev(k) EXCEPT !.code = c]

VARIABLES
    now,         \* Utc::now()
    store,       \* content of config_file
    token_data,  \* self.token_data : Option<TokenData>
    pc,          \* position in the code
    stack,       \* return positions of the pending calls
    ret,         \* value returned by the last call that returned
    arg,         \* token_response handed to save_tokens, then save_tokens' locals
                 \* token_response and token_data, kept until its caller resumes
    log,         \* calls, prompts and HTTP requests of the current operation
    gv,          \* what get_valid_access_token saw when it was last entered
    rf,          \* what refresh_access_token saw when it was last entered
    file,        \* the local file of the current upload: Option<Seq(byte)>
    up,          \* locals of upload()
    result,      \* outcome of the last finished operation
    op,          \* the public operation running or last run, and for new() the
                 \* case it found: "new", "new_corrupt", "new_absent",
                 \* "new_expired", "new_valid", "upload"
    seen,        \* content of config_file when the current operation was entered
                 \* (forgotten once the operation's refresh has returned)
    au,          \* what the vendor answered to the current perform_authorization
    env,         \* main.rs: the inputs and the result of resolving use_qr
    bk           \* main.rs: the state of the backup loop

vars == <<now, store, token_data, pc, stack, ret, arg, log, gv, rf, file, up, result, op,
          seen, au, env, bk>>

\* -------------------------------------------------------------- token manager

\* Mutant: the token is given up one tick before it expires.
is_token_valid_early(td, t) ==
    IF IsSome(td) THEN t + 1 < Unwrap(td).expires_at ELSE FALSE

\* Mutant: the credential still counts as valid at the instant it expires.
is_token_valid_late(td, t) ==
    IF IsSome(td) THEN t <= Unwrap(td).expires_at ELSE FALSE

\* fn is_token_valid(&self) -> bool
is_token_valid(td, t) ==
    IF IsSome(td) THEN t < Unwrap(td).expires_at ELSE FALSE

\* Mutant: the lifetime is subtracted from the clock instead of added.
expires_at_of_before(t, expires_in) == t - (expires_in - SafetyMargin)

\* Mutant: no safety margin is subtracted from the lifetime.
expires_at_of_nomargin(t, expires_in) == t + expires_in

\* save_tokens, line 133: Utc::now() + Duration::seconds(expires_in - 300)
expires_at_of(t, expires_in) == t + (expires_in - SafetyMargin)

\* save_tokens, lines 137-141: the response's refresh token, or else the old one
refresh_token_of(resp, td) ==
    IF IsSome(resp.refresh_token) THEN resp.refresh_token
    ELSE IF IsSome(td) THEN Unwrap(td).refresh_token ELSE None

\* Mutant: the new credential keeps the access token it replaces.
new_token_data_stale(resp, td, t) ==
    TokenData(IF IsSome(td) THEN Unwrap(td).access_token ELSE Unwrap(resp.access_token),
              refresh_token_of(resp, td),
              expires_at_of(t, Unwrap(resp.expires_in)))

\* save_tokens, lines 135-143: the credential built from a token response
new_token_data(resp, td, t) ==
    TokenData(Unwrap(resp.access_token),
              refresh_token_of(resp, td),
              expires_at_of(t, Unwrap(resp.expires_in)))

\* The JSON bodies the token endpoint can answer with: a token body, with or
\* without a refresh token; the error body {error, error_description}; a token
\* body that also carries an error field.
TokenBodies ==
    [access_token : {Some(t) : t \in Tokens}, refresh_token : OptToken,
     expires_in : {Some(e) : e \in ExpiresIn}, error : {None}]
    \cup {[access_token |-> None, refresh_token |-> None, expires_in |-> None,
           error |-> Some("invalid_grant")]}
    \cup {[access_token |-> Some(1), refresh_token |-> None,
           expires_in |-> Some(SafetyMargin), error |-> Some("invalid_grant")]}

\* response.json::<TokenResponse>(): access_token: String and expires_in: i64
\* are required fields, the others are Option.
TokenResponseDecodes(body) == IsSome(body.access_token) /\ IsSome(body.expires_in)

Call(entry, back) == pc' = entry /\ stack' = <<back>> \o stack
\* A call whose result the caller returns as it is: the callee returns to the
\* caller's caller.
TailCall(entry) == pc' = entry /\ UNCHANGED stack
Return(r) == pc' = Head(stack) /\ stack' = Tail(stack) /\ ret' = r

InitialStores ==
    {StoreAbsent, StoreGarbage, StoreEmpty, StorePartial}
    \cup {StoreJson(TokenData(a, r, e)) : a \in Tokens, r \in OptToken, e \in 0..MaxTime}

Init ==
    /\ now = 0
    /\ store \in InitialStores
    /\ token_data = None
    /\ pc = "start"
    /\ stack = << >>
    /\ ret = Ok(0)
    /\ arg = None
    /\ log = << >>
    /\ gv = None
    /\ rf = None
    /\ file = None
    /\ up = None
    /\ result = None
    /\ op = "new"
    /\ seen = None
    /\ au = None
    /\ env = None
    /\ bk = None

\* The clock is read by is_token_valid and by save_tokens only; time that
\* passes anywhere else is seen at the next of these reads.
Tick ==
    /\ pc \in {"start", "get_valid_access_token", "save_tokens"}
    /\ now < MaxTime
    /\ now' = now + 1
    /\ UNCHANGED <<store, token_data, pc, stack, ret, arg, log, gv, rf, file, up, result, op>>
    /\ UNCHANGED <<seen, au, env, bk>>

\* Mutant: a file that does not parse is taken for a missing file.
load_tokens_ok_lenient(s) == TRUE

\* fn load_tokens: what the file parses to, or a parse failure
load_tokens_ok(s) == s.kind \in {"absent", "json"}

\* BaiduPanUploader::new, lines 80-103
New ==
    /\ pc = "start"
    /\ IF ~load_tokens_ok(store)
       THEN /\ pc' = "init_failed"
            /\ result' = Some(Err("load_tokens"))
            /\ op' = "new_corrupt"
            /\ UNCHANGED <<token_data, stack>>
       ELSE /\ token_data' = store.cred
            /\ result' = None
            /\ IF store.cred = None
               THEN Call("perform_authorization", "new_after_auth") /\ op' = "new_absent"
               ELSE IF ~is_token_valid(store.cred, now)
               THEN Call("refresh_access_token", "new_after_refresh") /\ op' = "new_expired"
               ELSE pc' = "ready" /\ op' = "new_valid" /\ UNCHANGED stack
    /\ UNCHANGED <<now, store, ret, arg, log, gv, rf, file, up>>
    /\ seen' = Some(store)
    /\ UNCHANGED <<au, env, bk>>

\* Mutant: the refresh request is sent even when no refresh token is stored.
RefreshCallAlwaysSends ==
    /\ pc = "refresh_access_token"
    /\ rf' = Some([old |-> token_data, resp |-> None])
    /\ log' = log \o <<Ev("call_refresh_access_token"), Ev("req_refresh")>>
    /\ pc' = "refresh_wait"
    /\ UNCHANGED <<now, store, token_data, stack, ret, arg, gv, file, up, result, op>>
    /\ UNCHANGED <<seen, au, env, bk>>

\* refresh_access_token, lines 203-215: no refresh token is an error before
\* any request; otherwise the refresh request is sent.
RefreshCall ==
    /\ pc = "refresh_access_token"
    /\ rf' = Some([old |-> token_data, resp |-> None])
    /\ IF IsSome(token_data) /\ IsSome(Unwrap(token_data).refresh_token)
       THEN /\ log' = log \o <<Ev("call_refresh_access_token"), Ev("req_refresh")>>
            /\ pc' = "refresh_wait"
            /\ UNCHANGED <<stack, ret>>
       ELSE /\ log' = Append(log, Ev("call_refresh_access_token"))
            /\ Return(Err("No refresh token available"))
    /\ UNCHANGED <<now, store, token_data, arg, gv, file, up, result, op>>
    /\ UNCHANGED <<seen, au, env, bk>>

\* What the token endpoint can answer: no answer (transport failure) or a body.
TokenAnswers == {None} \cup {Some(b) : b \in TokenBodies}

\* What an answer of the token endpoint is, seen from the vendor's side: no
\* answer, the error body, a token body with an error field, a token body.
TokenAnswerKind(answer) ==
    IF answer = None THEN "no answer"
    ELSE IF Unwrap(answer).error /= None
    THEN (IF Unwrap(answer).access_token = None THEN "error body" ELSE "token body with error")
    ELSE "token body"

\* lines 186-196 and 215-225: what the code does with the answer of the token
\* endpoint, for both grant types
TokenAnswer(answer, save) ==
    IF answer = None
    THEN Return(Err("transport")) /\ UNCHANGED arg
    ELSE IF ~TokenResponseDecodes(Unwrap(answer))
    THEN Return(Err("decode")) /\ UNCHANGED arg
    ELSE IF IsSome(Unwrap(answer).error)
    THEN Return(Err("vendor error")) /\ UNCHANGED arg
    ELSE save /\ arg' = answer /\ UNCHANGED ret

\* refresh_access_token, lines 215-227: save_tokens(token_response)? then Ok(()),
\* so what save_tokens returns is what refresh_access_token returns
RefreshResponse ==
    /\ pc = "refresh_wait"
    /\ \E answer \in TokenAnswers :
          /\ TokenAnswer(answer, TailCall("save_tokens"))
          /\ rf' = Some([old |-> Unwrap(rf).old, resp |-> answer])
    /\ UNCHANGED <<now, store, token_data, log, gv, file, up, result, op>>
    /\ UNCHANGED <<seen, au, env, bk>>

\* save_tokens, lines 133-151: build the credential, open the file truncating it
SaveOpen ==
    /\ pc = "save_tokens"
    /\ \E opened \in BOOLEAN :
          IF opened
          THEN /\ store' = StoreEmpty
               /\ arg' = Some([token_response |-> Unwrap(arg),
                             token_data |-> new_token_data(Unwrap(arg), token_data, now)])
               /\ pc' = "save_write"
               /\ UNCHANGED <<stack, ret>>
          ELSE /\ Return(Err("Failed to open config file for writing"))
               /\ arg' = None
               /\ UNCHANGED store
    /\ UNCHANGED <<now, token_data, log, gv, rf, file, up, result, op>>
    /\ UNCHANGED <<seen, au, env, bk>>

\* save_tokens, lines 153-158: write the JSON, then replace self.token_data
SaveWrite ==
    /\ pc = "save_write"
    /\ \/ /\ store' = StoreJson(Unwrap(arg).token_data)
          /\ token_data' = Some(Unwrap(arg).token_data)
          /\ Return(Ok(0))
          /\ UNCHANGED arg
       \/ /\ store' \in {StoreEmpty, StorePartial}
          /\ Return(Err("Failed to write token data"))
          /\ arg' = None
          /\ UNCHANGED token_data
    /\ UNCHANGED <<now, log, gv, rf, file, up, result, op>>
    /\ UNCHANGED <<seen, au, env, bk>>

\* Mutant: the authorization is started whether or not the refresh failed.
NewAfterRefreshAlways ==
    /\ pc = "new_after_refresh"
    /\ Call("perform_authorization", "new_after_auth")
    /\ log' = IF ret.ok THEN log ELSE Append(log, Ev("warn_refresh_failed"))
    /\ ret' = Ok(0)
    /\ rf' = None
    /\ seen' = None
    /\ UNCHANGED <<now, store, token_data, gv, file, up, result, op, au, env, bk>>
    /\ arg' = None

\* Mutant: a failed refresh ends new() with the refresh error, no fallback.
NewAfterRefreshNoFallback ==
    /\ pc = "new_after_refresh"
    /\ IF ret.ok
       THEN pc' = "ready" /\ UNCHANGED result
       ELSE pc' = "init_failed" /\ result' = Some(ret)
    /\ ret' = Ok(0)
    /\ rf' = None
    /\ seen' = None
    /\ UNCHANGED <<now, store, token_data, stack, log, gv, file, up, op, au, env, bk>>
    /\ arg' = None

\* new, lines 90-102
NewAfterRefresh ==
    /\ pc = "new_after_refresh"
    /\ IF ret.ok
       THEN pc' = "ready" /\ UNCHANGED <<stack, log>>
       ELSE /\ Call("perform_authorization", "new_after_auth")
            /\ log' = Append(log, Ev("warn_refresh_failed"))
    /\ ret' = Ok(0)
    /\ rf' = None
    /\ seen' = None
    /\ UNCHANGED <<now, store, token_data, gv, file, up, result, op, au, env, bk>>
    /\ arg' = None

\* new, lines 86, 100 and 107: perform_authorization()? then Ok(uploader)
NewAfterAuth ==
    /\ pc = "new_after_auth"
    /\ IF ret.ok
       THEN pc' = "ready" /\ UNCHANGED result
       ELSE pc' = "init_failed" /\ result' = Some(ret)
    /\ ret' = Ok(0)
    /\ UNCHANGED <<now, store, token_data, stack, arg, log, gv, rf, file, up, op>>
    /\ au' = None
    /\ UNCHANGED <<seen, env, bk>>

\* perform_authorization, lines 245-252, and get_access_token, lines 180-186:
\* print the URL, read the code from stdin, send the code exchange
AuthPrompt ==
    /\ pc = "perform_authorization"
    /\ \E stdin_ok \in BOOLEAN :
          IF stdin_ok
          THEN /\ log' = log \o <<Ev("call_perform_authorization"), Ev("prompt"),
                                  Ev("req_token")>>
               /\ pc' = "token_wait"
               /\ UNCHANGED <<stack, ret>>
          ELSE /\ log' = log \o <<Ev("call_perform_authorization"), Ev("prompt")>>
               /\ Return(Err("stdin"))
    /\ UNCHANGED <<now, store, token_data, arg, gv, rf, file, up, result, op>>
    /\ au' = Some([exchange |-> "unasked", uinfo |-> "unasked"])
    /\ UNCHANGED <<seen, env, bk>>

\* get_access_token, lines 186-196
AuthTokenResponse ==
    /\ pc = "token_wait"
    /\ \E answer \in TokenAnswers :
          /\ TokenAnswer(answer, Call("save_tokens", "auth_after_save"))
          /\ au' = Some([Unwrap(au) EXCEPT !.exchange = TokenAnswerKind(answer)])
    /\ UNCHANGED <<seen, env, bk>>
    /\ UNCHANGED <<now, store, token_data, log, gv, rf, file, up, result, op>>

\* get_access_token, lines 196-198; perform_authorization, lines 254-257;
\* get_user_info, line 279
AuthAfterSave ==
    /\ pc = "auth_after_save"
    /\ IF ret.ok
       THEN Call("get_valid_access_token", "uinfo_after_gvat") /\ ret' = Ok(0)
       ELSE Return(ret)
    /\ UNCHANGED <<now, store, token_data, log, gv, rf, file, up, result, op>>
    /\ UNCHANGED <<seen, au, env, bk>>
    /\ arg' = None

\* What get_valid_access_token records on entry.
GvEntry == [now |-> now, td |-> token_data, store |-> store, loglen |-> Len(log),
            out |-> None]

\* get_valid_access_token, lines 236-240
access_token_of(td) ==
    IF IsSome(td) THEN Ok(Unwrap(td).access_token)
    ELSE Err("No access token available")

\* Mutant: the token is refreshed whether or not it is still valid.
GvatAlwaysRefreshes ==
    /\ pc = "get_valid_access_token"
    /\ Call("refresh_access_token", "gvat_after_refresh")
    /\ gv' = Some(GvEntry)
    /\ UNCHANGED <<now, store, token_data, ret, arg, log, rf, file, up, result, op>>
    /\ UNCHANGED <<seen, au, env, bk>>

\* get_valid_access_token, lines 232-240
Gvat ==
    /\ pc = "get_valid_access_token"
    /\ IF is_token_valid(token_data, now)
       THEN /\ Return(access_token_of(token_data))
            /\ gv' = Some([GvEntry EXCEPT !.out = Some(access_token_of(token_data))])
       ELSE /\ Call("refresh_access_token", "gvat_after_refresh")
            /\ gv' = Some(GvEntry)
            /\ UNCHANGED ret
    /\ UNCHANGED <<now, store, token_data, arg, log, rf, file, up, result, op>>
    /\ UNCHANGED <<seen, au, env, bk>>

\* get_valid_access_token, lines 233-240: refresh_access_token()? then the token
GvatAfterRefresh ==
    /\ pc = "gvat_after_refresh"
    /\ LET r == IF ret.ok THEN access_token_of(token_data) ELSE ret
       IN  /\ Return(r)
           /\ gv' = Some([Unwrap(gv) EXCEPT !.out = Some(r)])
    /\ UNCHANGED <<now, store, token_data, log, rf, file, up, result, op>>
    /\ UNCHANGED <<seen, au, env, bk>>
    /\ arg' = None

\* get_user_info, lines 279-285
UinfoAfterGvat ==
    /\ pc = "uinfo_after_gvat"
    /\ IF ret.ok
       THEN /\ log' = Append(log, [Ev("req_uinfo") EXCEPT !.tok = ret.val])
            /\ pc' = "uinfo_wait"
            /\ ret' = Ok(0)
            /\ UNCHANGED stack
       ELSE /\ Return(ret)
            /\ UNCHANGED log
    /\ gv' = None
    /\ rf' = None
    /\ UNCHANGED <<now, store, token_data, arg, file, up, result, op>>
    /\ UNCHANGED <<seen, au, env, bk>>

\* Vendor status codes: 0 is success.
Errnos == {0, 111}

\* What a JSON endpoint with an errno can answer: no answer or an undecodable
\* body (None), or a body with an errno.
ErrnoAnswers == {None} \cup {Some(e) : e \in Errnos}

\* Mutant: every answer of the identity check counts as a success.
user_info_ok_any(errno) == TRUE

\* perform_authorization, lines 258-272
user_info_ok(errno) == errno = 0

\* get_user_info, lines 285-287; perform_authorization, lines 257-274
UinfoResponse ==
    /\ pc = "uinfo_wait"
    /\ \E answer \in ErrnoAnswers :
          /\ IF answer = None THEN Return(Err("transport"))
             ELSE IF user_info_ok(Unwrap(answer)) THEN Return(Ok(0))
             ELSE Return(Err("Failed to get user info"))
          /\ au' = Some([Unwrap(au) EXCEPT !.uinfo =
                            IF answer = None THEN "no answer"
                            ELSE IF Unwrap(answer) = 0 THEN "errno 0" ELSE "errno non-zero"])
    /\ UNCHANGED <<seen, env, bk>>
    /\ UNCHANGED <<now, store, token_data, arg, log, gv, rf, file, up, result, op>>

\* ------------------------------------------------------------------- upload

Min(a, b) == IF a < b THEN a ELSE b

\* The local archive handed to upload(): missing, or its bytes.  The code never
\* looks at a byte's value, so byte k of a file is the number k: any two
\* positions of a file can be told apart.
LocalFiles == {None} \cup {Some([k \in 1..n |-> k]) : n \in 0..MaxFileSize}

\* Mutant: a read returns one byte less than the buffer holds.
read_short(f, pos) == SubSeq(f, pos + 1, Min(pos + CHUNK_SIZE - 1, Len(f)))

\* file.read(&mut buffer) with a CHUNK_SIZE buffer, at offset pos of a regular
\* file: the bytes up to the end of the buffer or of the file.
read(f, pos) == SubSeq(f, pos + 1, Min(pos + CHUNK_SIZE, Len(f)))

\* md5::compute, formatted as hex: a digest stands for the bytes it was computed
\* from (no collisions).
md5(bytes) == [md5 |-> bytes]

\* calculate_block_list, lines 296-303: the read loop from offset pos
RECURSIVE block_list_from(_, _, _)
block_list_from(f, pos, acc) ==
    LET buf == read(f, pos)
    IN  IF Len(buf) = 0 THEN acc
        ELSE block_list_from(f, pos + Len(buf), Append(acc, md5(buf)))

\* fn calculate_block_list(&self, file_path) -> Result<Vec<String>>
calculate_block_list(f) == block_list_from(f, 0, << >>)

\* An upload() call ends: the uploader is ready for the next call.
Finish(r) == pc' = "ready" /\ result' = Some(r) /\ ret' = Ok(0) /\ stack' = << >>

\* upload, line 310: the call starts by asking for a valid access token
UploadStart ==
    /\ pc = "ready"
    /\ Call("get_valid_access_token", "upload_after_gvat")
    /\ log' = << >>
    /\ result' = None
    /\ file' = None
    /\ up' = None
    /\ op' = "upload"
    /\ UNCHANGED <<now, store, token_data, ret, arg, gv, rf>>
    /\ seen' = Some(store)
    /\ au' = None
    /\ UNCHANGED <<env, bk>>

\* upload, lines 310-348: the token, the existence check, the size, the block
\* list and the precreate request
UploadAfterGvat ==
    /\ pc = "upload_after_gvat"
    /\ gv' = None
    /\ rf' = None
    /\ IF ~ret.ok
       THEN Finish(ret) /\ UNCHANGED <<log, file, up>>
       ELSE \E f \in LocalFiles :
               /\ file' = f
               /\ IF f = None
                  THEN Finish(Err("Local file not found")) /\ UNCHANGED <<log, up>>
                  ELSE LET bl == calculate_block_list(Unwrap(f))
                       IN  /\ up' = Some([access_token |-> ret.val,
                                          file_size |-> Len(Unwrap(f)),
                                          block_list |-> bl,
                                          upload_id |-> None,
                                          i |-> 0, pos |-> 0])
                           /\ log' = Append(log, [Ev("req_precreate") EXCEPT
                                                    !.tok = ret.val,
                                                    !.size = Len(Unwrap(f)),
                                                    !.bl = bl])
                           /\ pc' = "precreate_wait"
                           /\ ret' = Ok(0)
                           /\ UNCHANGED <<stack, result>>
    /\ UNCHANGED <<now, store, token_data, arg, op>>
    /\ seen' = None
    /\ UNCHANGED <<au, env, bk>>

\* The file is shortened by someone else between the hashing pass and the
\* transfer pass (while upload() waits for the precreate answer).
FileTruncated ==
    /\ pc = "precreate_wait"
    /\ \E n \in 0..(Len(Unwrap(file)) - 1) : file' = Some(SubSeq(Unwrap(file), 1, n))
    /\ UNCHANGED <<now, store, token_data, pc, stack, ret, arg, log, gv, rf, up, result, op>>
    /\ UNCHANGED <<seen, au, env, bk>>

\* Mutant: the chunk loop is never left.
chunk_loop_ends_never(u, buf) == FALSE

\* upload, lines 364-399: one turn of the chunk loop at index i, and the create
\* request once the loop is left (index past the block list, or a read of 0
\* bytes).
chunk_loop_ends(u, buf) == u.i >= Len(u.block_list) \/ Len(buf) = 0

SendNext(u, lg) ==
    LET buf == read(Unwrap(file), u.pos)
    IN  IF chunk_loop_ends(u, buf)
        THEN /\ log' = Append(lg, [Ev("req_create") EXCEPT
                                     !.tok = u.access_token,
                                     !.size = u.file_size,
                                     !.bl = u.block_list])
             /\ pc' = "create_wait"
             /\ up' = Some(u)
        ELSE /\ log' = Append(lg, [Ev("req_chunk") EXCEPT
                                     !.tok = u.access_token,
                                     !.partseq = u.i,
                                     !.data = buf])
             /\ pc' = "chunk_wait"
             /\ up' = Some([u EXCEPT !.pos = u.pos + Len(buf)])

\* Precreate answers: no answer or an undecodable body (None), or
\* PrecreateResponse {errno, uploadid}.
PrecreateAnswers ==
    {None} \cup {Some([errno |-> e, uploadid |-> u]) : e \in Errnos, u \in {None, Some(7)}}

\* Mutant: the errno of the precreate answer is not looked at.
precreate_rejected_never(resp) == FALSE

\* upload, line 351
precreate_rejected(resp) == resp.errno /= 0

\* upload, lines 349-361
PrecreateResponse ==
    /\ pc = "precreate_wait"
    /\ \E answer \in PrecreateAnswers :
          LET lg == Append(log, Resp("resp_precreate",
                                     IF answer = None THEN -1 ELSE Unwrap(answer).errno))
          IN  IF answer = None
              THEN Finish(Err("transport")) /\ log' = lg /\ UNCHANGED up
              ELSE IF precreate_rejected(Unwrap(answer))
              THEN Finish(Err("Pre-upload failed")) /\ log' = lg /\ UNCHANGED up
              ELSE IF Unwrap(answer).uploadid = None
              THEN Finish(Err("No upload ID returned")) /\ log' = lg /\ UNCHANGED up
              ELSE /\ SendNext([Unwrap(up) EXCEPT !.upload_id = Unwrap(answer).uploadid], lg)
                   /\ UNCHANGED <<stack, ret, result>>
    /\ UNCHANGED <<now, store, token_data, arg, gv, rf, file, op>>
    /\ UNCHANGED <<seen, au, env, bk>>

\* Chunk answers: no answer (None) or an HTTP status.
ChunkAnswers == {None, Some(200), Some(500)}

\* Mutant: any HTTP status counts as success.
is_success_any(status) == status >= 200

\* upload, line 383: response.status().is_success()
is_success(status) == status >= 200 /\ status < 300

\* upload, lines 381-386, and the next turn of the loop
ChunkResponse ==
    /\ pc = "chunk_wait"
    /\ \E answer \in ChunkAnswers :
          LET lg == Append(log, [Resp("resp_chunk",
                                      IF answer = None THEN -1 ELSE Unwrap(answer))
                                 EXCEPT !.partseq = Unwrap(up).i])
          IN  IF answer = None
              THEN Finish(Err("transport")) /\ log' = lg /\ UNCHANGED up
              ELSE IF ~is_success(Unwrap(answer))
              THEN Finish(Err("Chunk upload failed")) /\ log' = lg /\ UNCHANGED up
              ELSE /\ SendNext([Unwrap(up) EXCEPT !.i = Unwrap(up).i + 1], lg)
                   /\ UNCHANGED <<stack, ret, result>>
    /\ UNCHANGED <<now, store, token_data, arg, gv, rf, file, op>>
    /\ UNCHANGED <<seen, au, env, bk>>

\* upload, line 404
create_ok(errno) == errno = 0

\* upload, lines 401-409
CreateResponse ==
    /\ pc = "create_wait"
    /\ \E answer \in ErrnoAnswers :
          /\ log' = Append(log, Resp("resp_create",
                                     IF answer = None THEN -1 ELSE Unwrap(answer)))
          /\ IF answer = None THEN Finish(Err("transport"))
             ELSE IF create_ok(Unwrap(answer)) THEN Finish(Ok(1))
             ELSE Finish(Err("Failed to create file"))
    /\ UNCHANGED <<now, store, token_data, arg, gv, rf, file, up, op>>
    /\ UNCHANGED <<seen, au, env, bk>>

Next ==
    \/ Tick
    \/ New
    \/ RefreshCall
    \/ RefreshResponse
    \/ SaveOpen
    \/ SaveWrite
    \/ NewAfterRefresh
    \/ NewAfterAuth
    \/ AuthPrompt
    \/ AuthTokenResponse
    \/ AuthAfterSave
    \/ Gvat
    \/ GvatAfterRefresh
    \/ UinfoAfterGvat
    \/ UinfoResponse
    \/ UploadStart
    \/ UploadAfterGvat
    \/ FileTruncated
    \/ PrecreateResponse
    \/ ChunkResponse
    \/ CreateResponse

Spec == Init /\ [][Next]_vars

\* upload() on an uploader that new() has returned: the credential in memory
\* is the one in config_file and is not expired yet.
UploadInit ==
    /\ now \in 0..MaxTime
    /\ \E a \in Tokens, r \in OptToken, e \in 0..MaxTime :
          /\ now < e
          /\ token_data = Some(TokenData(a, r, e))
          /\ store = StoreJson(TokenData(a, r, e))
    /\ pc = "ready"
    /\ stack = << >>
    /\ ret = Ok(0)
    /\ arg = None
    /\ log = << >>
    /\ gv = None
    /\ rf = None
    /\ file = None
    /\ up = None
    /\ result = None
    /\ op = "new_valid"
    /\ seen = None
    /\ au = None
    /\ env = None
    /\ bk = None

UploadNext ==
    \/ Tick
    \/ UploadStart
    \/ Gvat
    \/ RefreshCall
    \/ RefreshResponse
    \/ SaveOpen
    \/ SaveWrite
    \/ GvatAfterRefresh
    \/ UploadAfterGvat
    \/ FileTruncated
    \/ PrecreateResponse
    \/ ChunkResponse
    \/ CreateResponse

\* Every call returns: an HTTP request is answered or fails, a read or a write
\* of a file returns, and the code between two of them runs to the next one.
UploadSpec == UploadInit /\ [][UploadNext]_vars /\ WF_vars(UploadNext)

\* ------------------------------------------------------------------ main.rs
\* A string is the sequence of its characters.

\* str::trim strips the characters with the White_Space property
Whitespace == {" ", "\t", "\n"}

AsciiLower == <<"a", "b", "c", "d", "e", "f", "g", "h", "i", "j", "k", "l", "m",
                "n", "o", "p", "q", "r", "s", "t", "u", "v", "w", "x", "y", "z">>
AsciiUpper == <<"A", "B", "C", "D", "E", "F", "G", "H", "I", "J", "K", "L", "M",
                "N", "O", "P", "Q", "R", "S", "T", "U", "V", "W", "X", "Y", "Z">>

RECURSIVE trim_start(_)
trim_start(s) ==
    IF s /= << >> /\ Head(s) \in Whitespace THEN trim_start(Tail(s)) ELSE s

RECURSIVE trim_end(_)
trim_end(s) ==
    IF s /= << >> /\ s[Len(s)] \in Whitespace
    THEN trim_end(SubSeq(s, 1, Len(s) - 1)) ELSE s

\* str::trim
trim(s) == trim_end(trim_start(s))

\* Mutant: the value is compared in the case it was given.
to_ascii_lowercase_same(s) == s

\* str::to_ascii_lowercase: A-Z become a-z, every other character is kept
to_ascii_lowercase(s) ==
    [k \in 1..Len(s) |->
        IF \E n \in 1..Len(AsciiUpper) : AsciiUpper[n] = s[k]
        THEN AsciiLower[CHOOSE n \in 1..Len(AsciiUpper) : AsciiUpper[n] = s[k]]
        ELSE s[k]]

\* fn parse_env_bool(value: String) -> Option<bool>
parse_env_bool(value) ==
    LET v == to_ascii_lowercase(trim(value))
    IN  IF v \in {<<"1">>, <<"t", "r", "u", "e">>, <<"y", "e", "s">>, <<"o", "n">>}
        THEN Some(TRUE)
        ELSE IF v \in {<<"0">>, <<"f", "a", "l", "s", "e">>, <<"n", "o">>,
                       <<"o", "f", "f">>}
        THEN Some(FALSE)
        ELSE None

\* resolve_cloud189_credentials, lines 260-262: the configured use_qr, or else
\* the parsed CLOUD189_USE_QR, or else false; var is env::var(..).ok()
resolve_use_qr(use_qr, var) ==
    IF IsSome(use_qr) THEN Unwrap(use_qr)
    ELSE IF IsSome(var) /\ IsSome(parse_env_bool(Unwrap(var)))
    THEN Unwrap(parse_env_bool(Unwrap(var)))
    ELSE FALSE

\* The values tried for CLOUD189_USE_QR: a word, in one of three casings,
\* between two runs of whitespace.
EnvWords ==
    {<<"1">>, <<"t", "r", "u", "e">>, <<"y", "e", "s">>, <<"o", "n">>,
     <<"0">>, <<"f", "a", "l", "s", "e">>, <<"n", "o">>, <<"o", "f", "f">>,
     << >>, <<"2">>, <<"y">>, <<"n">>, <<"t">>, <<"o", "f">>, <<"1", "0">>,
     <<"o", " ", "n">>, <<"t", "r", "u", "e", "1">>, <<"t", "r", "u">>,
     <<"e", "n", "a", "b", "l", "e", "d">>, <<"i", "n", "v", "a", "l", "i", "d">>}
EnvCasings == {"lower", "UPPER", "First"}
EnvPads == UNION {[1..n -> Whitespace] : n \in 0..MaxPad}

to_ascii_uppercase(s) ==
    [k \in 1..Len(s) |->
        IF \E n \in 1..Len(AsciiLower) : AsciiLower[n] = s[k]
        THEN AsciiUpper[CHOOSE n \in 1..Len(AsciiLower) : AsciiLower[n] = s[k]]
        ELSE s[k]]

InCasing(word, casing) ==
    IF casing = "UPPER" THEN to_ascii_uppercase(word)
    ELSE IF casing = "First" /\ word /= << >>
    THEN to_ascii_uppercase(<<Head(word)>>) \o Tail(word)
    ELSE word

\* The inputs of resolve_cloud189_credentials that decide use_qr: the
\* configured cloud189_use_qr and the environment variable, unset or set to
\* left \o word-in-casing \o right.
EnvInputs ==
    {[use_qr |-> c, var |-> None, word |-> << >>, resolved |-> None, parsed |-> None] :
        c \in {None, Some(TRUE), Some(FALSE)}}
    \cup
    {[use_qr |-> c, var |-> Some(l \o InCasing(w, k) \o r), word |-> w,
      resolved |-> None, parsed |-> None] :
        c \in {None, Some(TRUE), Some(FALSE)}, l \in EnvPads, r \in EnvPads,
        w \in EnvWords, k \in EnvCasings}

\* main() before the uploaders are built
EnvInit ==
    /\ now = 0
    /\ store = StoreAbsent
    /\ token_data = None
    /\ pc = "main"
    /\ stack = << >>
    /\ ret = Ok(0)
    /\ arg = None
    /\ log = << >>
    /\ gv = None
    /\ rf = None
    /\ file = None
    /\ up = None
    /\ result = None
    /\ op = "main"
    /\ seen = None
    /\ au = None
    /\ env \in {Some(i) : i \in EnvInputs}
    /\ bk = None

\* main, lines 95-96: resolve_cloud189_credentials; parsed is what
\* parse_env_bool returned when the or_else closure called it
ResolveCloud189Credentials ==
    /\ pc = "main"
    /\ LET e == Unwrap(env)
       IN  env' = Some([e EXCEPT
                 !.resolved = Some(resolve_use_qr(e.use_qr, e.var)),
                 !.parsed = IF e.use_qr = None /\ IsSome(e.var)
                            THEN Some(parse_env_bool(Unwrap(e.var))) ELSE None])
    /\ pc' = "main_resolved"
    /\ UNCHANGED <<now, store, token_data, stack, ret, arg, log, gv, rf, file, up,
                   result, op, seen, au, bk>>

EnvNext == ResolveCloud189Credentials

EnvSpec == EnvInit /\ [][EnvNext]_vars

\* ------------------------------------------------ main.rs: the backup loop
\* The uploaders vector, lines 127-137: Baidu, Cloud189 or both, never empty.
UploaderLists == {<<"baidu">>, <<"cloud189">>, <<"baidu", "cloud189">>}

\* What the loop reads of a BackupItem: whether source_path or source_dir is
\* given and not empty, whether a command is configured, keep_archive and
\* keep_command_source.
OptBool == {None, Some(TRUE), Some(FALSE)}
BackupItems ==
    [source : BOOLEAN, command : BOOLEAN, keep_archive : OptBool,
     keep_command_source : OptBool]

\* Option<bool>::unwrap_or
unwrap_or(o, d) == IF IsSome(o) THEN Unwrap(o) ELSE d

\* What is known of one item once the loop has taken it up: its keep_archive,
\* the upload() calls made for it with their results, and its archive file.
ItemRecord(item) ==
    [keep_archive |-> item.keep_archive, fanout |-> FALSE, uploads |-> << >>,
     archive |-> "none"]

Failure(b, kind, uploader) == [item |-> b.i, kind |-> kind, uploader |-> uploader]

\* main after the uploaders are built, line 139: n items to back up
MainInit ==
    /\ now = 0
    /\ store = StoreAbsent
    /\ token_data = None
    /\ pc = "backup_item"
    /\ stack = << >>
    /\ ret = Ok(0)
    /\ arg = None
    /\ log = << >>
    /\ gv = None
    /\ rf = None
    /\ file = None
    /\ up = None
    /\ result = None
    /\ op = "main"
    /\ seen = None
    /\ au = None
    /\ env = None
    /\ \E n \in 1..MaxItems, us \in UploaderLists :
          bk = Some([n |-> n, uploaders |-> us, i |-> 1, item |-> None,
                     source_is_file |-> FALSE, path_utf8 |-> TRUE, u |-> 1,
                     upload_failed |-> FALSE, failures |-> << >>, rec |-> << >>,
                     result |-> None])

BaiduUnchanged ==
    UNCHANGED <<now, store, token_data, stack, ret, arg, log, gv, rf, file, up, result,
                op, seen, au, env>>

\* `continue`, or the end of the loop body: the next item
Continue(b) ==
    /\ bk' = Some([b EXCEPT !.i = b.i + 1, !.item = None, !.source_is_file = FALSE,
                            !.path_utf8 = TRUE, !.u = 1, !.upload_failed = FALSE])
    /\ pc' = "backup_item"

\* an error propagated with `?` out of the loop body: main returns it
Abort(b, e) == bk' = Some([b EXCEPT !.result = Some(Err(e))]) /\ pc' = "backup_done"

RecSet(b, field, v) == [b.rec EXCEPT ![b.i] = [b.rec[b.i] EXCEPT ![field] = v]]

\* main, lines 141-145: the next item, resolve_source_path(..)?
BackupResolve ==
    /\ pc = "backup_item"
    /\ Unwrap(bk).i <= Unwrap(bk).n
    /\ \E item \in BackupItems :
          LET b == [Unwrap(bk) EXCEPT !.item = Some(item),
                                      !.rec = Append(@, ItemRecord(item))]
          IN  IF ~item.source
              THEN Abort(b, "Missing source_path/source_dir in backup item")
              ELSE /\ bk' = Some(b)
                   /\ pc' = IF item.command THEN "backup_command" ELSE "backup_source"
    /\ BaiduUnchanged

\* main, lines 145-158: run_command
BackupCommand ==
    /\ pc = "backup_command"
    /\ \E ran \in BOOLEAN :
          IF ran
          THEN pc' = "backup_source" /\ UNCHANGED bk
          ELSE LET b == Unwrap(bk)
               IN  Continue([b EXCEPT !.failures =
                                Append(@, Failure(b, "command failed", "")) ])
    /\ BaiduUnchanged

\* main, lines 160-175: the source path exists and is a file or a directory
BackupSourceCheck ==
    /\ pc = "backup_source"
    /\ \E found \in {"nothing", "file", "dir", "other"} :
          LET b == Unwrap(bk)
          IN  IF found = "nothing"
              THEN Continue([b EXCEPT !.failures =
                               Append(@, Failure(b, "source path not found", ""))])
              ELSE IF found = "other"
              THEN Continue([b EXCEPT !.failures =
                               Append(@, Failure(b, "source path is not a file or directory", ""))])
              ELSE /\ bk' = Some([b EXCEPT !.source_is_file = (found = "file")])
                   /\ pc' = "backup_archive"
    /\ BaiduUnchanged

\* main, lines 177-185: build_archive_path(..)?, create_archive
BackupArchive ==
    /\ pc = "backup_archive"
    /\ \E outcome \in {"no current dir", "create failed", "created"}, utf8 \in BOOLEAN :
          LET b == Unwrap(bk)
          IN  IF outcome = "no current dir"
              THEN Abort(b, "build_archive_path")
              ELSE IF outcome = "create failed"
              THEN Continue([b EXCEPT !.failures =
                               Append(@, Failure(b, "create archive failed", ""))])
              ELSE /\ bk' = Some([b EXCEPT !.path_utf8 = utf8,
                                           !.u = 1,
                                           !.upload_failed = FALSE,
                                           !.rec = RecSet([b EXCEPT !.rec =
                                                               RecSet(b, "archive", "exists")],
                                                          "fanout", TRUE)])
                   /\ pc' = "backup_upload"
    /\ BaiduUnchanged

\* Mutant: the fan-out stops at the first uploader that fails.
fanout_ends_at_failure(b) == b.u > Len(b.uploaders) \/ b.upload_failed

\* main, line 187: for uploader in uploaders.iter_mut()
fanout_ends(b) == b.u > Len(b.uploaders)

\* main, lines 187-200: one turn of the fan-out: archive_path.to_str()?, then
\* uploader.upload
BackupUpload ==
    /\ pc = "backup_upload"
    /\ ~fanout_ends(Unwrap(bk))
    /\ LET b == Unwrap(bk)
           name == b.uploaders[b.u]
       IN  IF ~b.path_utf8
           THEN Abort(b, "Archive path is not valid UTF-8")
           ELSE \E uploaded \in BOOLEAN :
                  /\ bk' = Some([b EXCEPT
                        !.u = b.u + 1,
                        !.upload_failed = b.upload_failed \/ ~uploaded,
                        !.failures = IF uploaded THEN @
                                     ELSE Append(@, Failure(b, "upload failed", name)),
                        !.rec = RecSet(b, "uploads",
                                       Append(b.rec[b.i].uploads,
                                              [uploader |-> name, ok |-> uploaded]))])
                  /\ UNCHANGED pc
    /\ BaiduUnchanged

\* main, lines 202-208: if upload_failed { warn!; continue; }
archive_retained(b) == b.upload_failed

\* main, lines 202-229: after the fan-out: keep the archive when an upload
\* failed; else remove it unless keep_archive, and remove the command's output
\* file unless keep_command_source; a failed remove_file is propagated with `?`
BackupCleanup ==
    /\ pc = "backup_upload"
    /\ fanout_ends(Unwrap(bk))
    /\ LET b == Unwrap(bk)
           item == Unwrap(b.item)
           remove_archive == ~unwrap_or(item.keep_archive, FALSE)
           remove_source == /\ item.command
                            /\ ~unwrap_or(item.keep_command_source, TRUE)
                            /\ b.source_is_file
       IN  IF archive_retained(b)
           THEN Continue(b)
           ELSE \E archive_removed \in BOOLEAN, source_removed \in BOOLEAN :
                  LET b2 == IF remove_archive /\ archive_removed
                            THEN [b EXCEPT !.rec = RecSet(b, "archive", "removed")]
                            ELSE b
                  IN  IF remove_archive /\ ~archive_removed
                      THEN Abort(b, "Failed to remove archive file after upload")
                      ELSE IF remove_source /\ ~source_removed
                      THEN Abort(b2, "Failed to remove command output file")
                      ELSE Continue(b2)
    /\ BaiduUnchanged

\* main, lines 232-241: after the loop
BackupEnd ==
    /\ pc = "backup_item"
    /\ Unwrap(bk).i > Unwrap(bk).n
    /\ bk' = Some([Unwrap(bk) EXCEPT !.result =
                      IF Unwrap(bk).failures /= << >>
                      THEN Some(Err("Backup finished with failures"))
                      ELSE Some(Ok(0))])
    /\ pc' = "backup_done"
    /\ BaiduUnchanged

MainNext ==
    \/ BackupResolve
    \/ BackupCommand
    \/ BackupSourceCheck
    \/ BackupArchive
    \/ BackupUpload
    \/ BackupCleanup
    \/ BackupEnd

MainSpec == MainInit /\ [][MainNext]_vars

\* ------------------------------------------------------------------ claims

\* Positions of the trace holding an entry of kind k.
At(k) == {j \in 1..Len(log) : log[j].kind = k}
Count(k) == Cardinality(At(k))

\* get_valid_access_token has returned and its caller has not yet gone on.
GvReturned == gv /= None /\ Unwrap(gv).out /= None
GvValidAtEntry ==
    /\ GvReturned
    /\ IsSome(Unwrap(gv).td)
    /\ Unwrap(gv).now < Unwrap(Unwrap(gv).td).expires_at
GvExpiredAtEntry ==
    /\ GvReturned
    /\ IsSome(Unwrap(gv).td)
    /\ Unwrap(gv).now >= Unwrap(Unwrap(gv).td).expires_at

\* C1: when get_valid_access_token is entered with now < expires_at it returns
\* the stored access token, the trace has no new entry (no request was sent)
\* and neither the store file nor the credential in memory has changed.
C1_ValidTokenNoNetwork ==
    GvValidAtEntry =>
        /\ Unwrap(Unwrap(gv).out) = Ok(Unwrap(Unwrap(gv).td).access_token)
        /\ Len(log) = Unwrap(gv).loglen
        /\ store = Unwrap(gv).store
        /\ token_data = Unwrap(gv).td

C1_Witness == GvValidAtEntry /\ pc = "upload_after_gvat" /\ now > 0

\* The refresh of the get_valid_access_token call that just returned was
\* answered by the vendor with a token body without an error field.
GvRefreshAccepted ==
    /\ GvExpiredAtEntry
    /\ IsSome(Unwrap(Unwrap(gv).td).refresh_token)
    /\ rf /= None
    /\ Unwrap(rf).resp /= None
    /\ TokenResponseDecodes(Unwrap(Unwrap(rf).resp))
    /\ Unwrap(Unwrap(rf).resp).error = None

\* Refresh requests sent since get_valid_access_token was entered.
GvRefreshRequests == {j \in At("req_refresh") : j > Unwrap(gv).loglen}

SaveErrors == {"Failed to open config file for writing", "Failed to write token data"}

\* C2 as stated: expired, refresh token present, vendor accepts: exactly one
\* refresh request, and the returned token is the one of the refresh answer.
C2_Original ==
    GvRefreshAccepted =>
        /\ Cardinality(GvRefreshRequests) = 1
        /\ Unwrap(Unwrap(gv).out) = Ok(Unwrap(Unwrap(Unwrap(rf).resp).access_token))

\* C2 amended: expired, refresh token present, vendor accepts: exactly one
\* refresh request; the call returns either the access token of the refresh
\* answer, which is then the credential in memory and in the store file, or the
\* error of the store write that failed; it never returns another token.
C2_RefreshReturnsNewToken ==
    GvRefreshAccepted =>
        LET out == Unwrap(Unwrap(gv).out)
            body == Unwrap(Unwrap(rf).resp)
        IN  /\ Cardinality(GvRefreshRequests) = 1
            /\ out.ok =>
                  /\ out.val = Unwrap(body.access_token)
                  /\ Unwrap(token_data).access_token = Unwrap(body.access_token)
                  /\ store = StoreJson(Unwrap(token_data))
            /\ ~out.ok => out.err \in SaveErrors

C2_Witness ==
    /\ GvRefreshAccepted
    /\ Unwrap(Unwrap(gv).out).ok
    /\ Unwrap(Unwrap(gv).out).val /= Unwrap(Unwrap(gv).td).access_token
    /\ pc = "upload_after_gvat"

\* new() found a stored credential that had expired.
InNewExpired == op = "new_expired"

\* new() is past the call of perform_authorization that follows a failed refresh.
RefreshFailedInNew ==
    InNewExpired /\ Count("warn_refresh_failed") > 0 /\ pc /= "perform_authorization"

\* C3, first half: in new() with a stored expired credential, the interactive
\* authorization is started at most once, only after the refresh was attempted
\* and failed, and exactly once when it failed.
C3_AuthOnceAfterRefresh ==
    InNewExpired =>
        /\ Count("call_perform_authorization") <= 1
        /\ \A j \in At("call_perform_authorization") :
              /\ \E i \in At("call_refresh_access_token") : i < j
              /\ \E i \in At("warn_refresh_failed") : i < j
        /\ RefreshFailedInNew => Count("call_perform_authorization") = 1

\* C3 as stated: the first half, and no refresh request after the interactive
\* authorization has started.
C3_Original ==
    InNewExpired =>
        /\ C3_AuthOnceAfterRefresh
        /\ \A i \in At("call_perform_authorization"), j \in At("req_refresh") : j < i

\* C3 amended: the first half; after the interactive authorization has started
\* at most one refresh request is sent, by the identity check's
\* get_valid_access_token right after the code exchange, and only when the
\* credential the exchange produced is already expired at that check
\* (now >= expires_at) and has a refresh token.
C3_RefreshAfterAuthOnlyIfStale ==
    InNewExpired =>
        /\ C3_AuthOnceAfterRefresh
        /\ \A i \in At("call_perform_authorization") :
              LET late == {j \in At("req_refresh") : j > i}
              IN  /\ Cardinality(late) <= 1
                  /\ \A j \in late :
                        /\ log[j - 1].kind = "call_refresh_access_token"
                        /\ log[j - 2].kind = "req_token"
                        /\ \A k \in At("req_uinfo") : k > j
                        /\ gv /= None =>
                              /\ Unwrap(gv).now >= Unwrap(Unwrap(gv).td).expires_at
                              /\ IsSome(Unwrap(Unwrap(gv).td).refresh_token)
                              /\ Unwrap(gv).loglen = j - 2

C3_Witness ==
    /\ RefreshFailedInNew
    /\ pc = "ready"
    /\ \E i \in At("call_perform_authorization"), j \in At("req_refresh") : j > i

\* C4: a precreate answer with a non-zero errno ends upload() with an error,
\* and the trace of that call holds no chunk request and no create request.
C4_PrecreateRejectedStopsUpload ==
    \A j \in At("resp_precreate") :
        log[j].code > 0 =>
            /\ Count("req_chunk") = 0
            /\ Count("req_create") = 0
            /\ pc = "ready"
            /\ result /= None
            /\ ~Unwrap(result).ok

C4_Witness ==
    /\ \E j \in At("resp_precreate") : log[j].code > 0
    /\ Len(Unwrap(up).block_list) > 1

\* C5: a chunk answer with a non-success HTTP status is the last entry of the
\* trace of that upload(): no later chunk, no second request for chunk k, no
\* create request; and upload() has ended with an error.
C5_ChunkFailureAborts ==
    \A j \in At("resp_chunk") :
        (log[j].code >= 0 /\ ~(log[j].code >= 200 /\ log[j].code < 300)) =>
            /\ j = Len(log)
            /\ Cardinality({i \in At("req_chunk") : log[i].partseq >= log[j].partseq}) = 1
            /\ Count("req_create") = 0
            /\ pc = "ready"
            /\ result /= None
            /\ ~Unwrap(result).ok

C5_Witness ==
    \E j \in At("resp_chunk") :
        /\ log[j].code = 500
        /\ log[j].partseq = 1
        /\ Len(Unwrap(up).block_list) > 2

ChunkAccepted(i) ==
    \E j \in At("resp_chunk") :
        log[j].partseq = i /\ log[j].code >= 200 /\ log[j].code < 300

\* C6: chunk i is requested only after chunk i-1 was answered with success,
\* and the create request is sent only when every index of the block list has
\* been transferred and answered with success.
C6_CommitOnlyAfterAllChunks ==
    /\ \A j \in At("req_chunk") :
          log[j].partseq > 0 =>
              \E k \in At("resp_chunk") :
                  /\ k < j
                  /\ log[k].partseq = log[j].partseq - 1
                  /\ log[k].code >= 200 /\ log[k].code < 300
    /\ Count("req_create") > 0 =>
          \A i \in 0..(Len(Unwrap(up).block_list) - 1) : ChunkAccepted(i)

\* The requests upload() itself sent, in order.
UploadRequests ==
    SelectSeq(log, LAMBDA e : e.kind \in {"req_precreate", "req_chunk", "req_create"})

\* An upload() call has ended in which the precreate request was sent and every
\* answer of the vendor was a success (errno 0 with an upload id, HTTP 2xx).
UploadAllAnswersOk ==
    /\ op = "upload" /\ pc = "ready" /\ result /= None
    /\ Count("req_precreate") = 1
    /\ \A j \in At("resp_precreate") \cup At("resp_create") : log[j].code = 0
    /\ \A j \in At("resp_chunk") : log[j].code >= 200 /\ log[j].code < 300
    /\ Unwrap(result).err /= "No upload ID returned"

\* C7: when every vendor call of an upload() succeeds, the requests are one
\* precreate, then one chunk request per block-list entry with partseq
\* 0, 1, ... in this order, then one create, and the call returns true.
C7_SuccessfulRunSequence ==
    UploadAllAnswersOk =>
        LET n == Len(Unwrap(up).block_list)
            reqs == UploadRequests
        IN  /\ Len(reqs) = n + 2
            /\ reqs[1].kind = "req_precreate"
            /\ \A i \in 1..n : reqs[i + 1].kind = "req_chunk" /\ reqs[i + 1].partseq = i - 1
            /\ reqs[n + 2].kind = "req_create"
            /\ Unwrap(result) = Ok(1)

\* C8: the block list of a file of S bytes has ceil(S / CHUNK_SIZE) entries;
\* every entry but the last was computed from CHUNK_SIZE bytes and the last
\* from S - (len - 1) * CHUNK_SIZE bytes.
C8_BlockListShape ==
    up /= None =>
        LET S == Unwrap(up).file_size
            bl == Unwrap(up).block_list
            n == Len(bl)
        IN  /\ n = (S + CHUNK_SIZE - 1) \div CHUNK_SIZE
            /\ \A i \in 1..(n - 1) : Len(bl[i].md5) = CHUNK_SIZE
            /\ n > 0 => Len(bl[n].md5) = S - (n - 1) * CHUNK_SIZE

C8_Witness ==
    /\ up /= None
    /\ Unwrap(up).file_size = 2 * CHUNK_SIZE + 1
    /\ Len(Unwrap(up).block_list) = 3

RECURSIVE Concat(_)
Concat(ss) == IF Len(ss) = 0 THEN << >> ELSE Head(ss) \o Concat(Tail(ss))

\* The bytes of the chunk requests sent so far, in order.
TransferredChunks ==
    LET cs == SelectSeq(log, LAMBDA e : e.kind = "req_chunk")
    IN  [i \in 1..Len(cs) |-> cs[i].data]

\* The bytes the block list was computed from, entry by entry.
HashedChunks ==
    [i \in 1..Len(Unwrap(up).block_list) |-> Unwrap(up).block_list[i].md5]

\* C9: the chunk sent with partseq i holds exactly the bytes hashed into
\* entry i of the block list, and once the create request is sent the chunks
\* transferred, concatenated in order, are the file that was hashed.
C9_TransferMatchesHashing ==
    /\ \A j \in At("req_chunk") : log[j].data = HashedChunks[log[j].partseq + 1]
    /\ Count("req_create") > 0 => Concat(TransferredChunks) = Concat(HashedChunks)

\* refresh_access_token has just returned Ok to its caller.
RefreshSucceeded ==
    /\ pc \in {"new_after_refresh", "gvat_after_refresh"}
    /\ ret.ok
    /\ rf /= None

\* C10 as stated: after a successful refresh the new expires_at is strictly
\* greater than the old one, and the refresh token is the old one when the
\* answer had none.
C10_Original ==
    RefreshSucceeded =>
        LET old == Unwrap(Unwrap(rf).old)
            body == Unwrap(Unwrap(rf).resp)
            new == Unwrap(token_data)
        IN  /\ new.expires_at > old.expires_at
            /\ body.refresh_token = None => new.refresh_token = old.refresh_token

\* C10 amended: after a successful refresh the new expires_at is at least the
\* old one plus (expires_in - 300), hence strictly greater than the old one
\* whenever the vendor reports an expires_in above 300 seconds; and the refresh
\* token is the old one when the answer had none, the answer's otherwise.
C10_RefreshExtendsExpiry ==
    RefreshSucceeded =>
        LET old == Unwrap(Unwrap(rf).old)
            body == Unwrap(Unwrap(rf).resp)
            new == Unwrap(token_data)
        IN  /\ new.expires_at >= old.expires_at + (Unwrap(body.expires_in) - SafetyMargin)
            /\ Unwrap(body.expires_in) > SafetyMargin => new.expires_at > old.expires_at
            /\ body.refresh_token = None => new.refresh_token = old.refresh_token
            /\ body.refresh_token /= None => new.refresh_token = body.refresh_token

C10_Witness ==
    /\ RefreshSucceeded
    /\ Unwrap(Unwrap(rf).resp).refresh_token = None
    /\ Unwrap(Unwrap(rf).resp).expires_in = Some(SafetyMargin + 1)
    /\ Unwrap(Unwrap(rf).old).refresh_token /= None
    /\ Unwrap(Unwrap(rf).old).expires_at < now
\* ---------------------------------------------------------------------------
\* save_tokens has built the credential and opened the file, or has returned
\* Ok to its caller, which has not resumed yet. No clock tick separates these
\* states from the clock read of line 133.
SaveBuilt == pc = "save_write"
SaveReturnedOk ==
    /\ pc \in {"new_after_refresh", "gvat_after_refresh", "auth_after_save"}
    /\ ret.ok
    /\ arg /= None

\* C11: every credential built from a token response, of the code exchange or
\* of a refresh, expires at the clock read by save_tokens plus the vendor's
\* expires_in minus 300 seconds, and that credential is the one stored.
C11_ExpiryHasSafetyMargin ==
    /\ (SaveBuilt \/ SaveReturnedOk) =>
          Unwrap(arg).token_data.expires_at
              = now + Unwrap(Unwrap(arg).token_response.expires_in) - 300
    /\ SaveReturnedOk =>
          /\ token_data = Some(Unwrap(arg).token_data)
          /\ store = StoreJson(Unwrap(arg).token_data)

\* a refresh and a code exchange, each with a lifetime other than the margin
C11_Witness ==
    /\ SaveReturnedOk
    /\ pc = "auth_after_save"
    /\ Unwrap(arg).token_response.expires_in = Some(301)
    /\ Unwrap(token_data).expires_at = now + 1

C11_WitnessRefresh ==
    /\ SaveReturnedOk
    /\ pc = "gvat_after_refresh"
    /\ Unwrap(arg).token_response.expires_in = Some(299)
    /\ now > 0

\* ---------------------------------------------------------------------------
\* a refresh is running or has just returned, in an operation that found a
\* complete credential in config_file
RefreshOverCompleteStore ==
    /\ rf /= None
    /\ seen /= None
    /\ Unwrap(seen).kind = "json"

\* C12: while a refresh persists its credential, and after a write error, the
\* store file holds a complete credential (the old one or the new one), never
\* an empty or a partial file.
C12_StoreAlwaysComplete ==
    RefreshOverCompleteStore => store.kind = "json"

\* ---------------------------------------------------------------------------
\* get_valid_access_token, called by upload(), found the token expired and has
\* returned an error: its refresh failed.
RefreshFailedInUpload ==
    /\ op = "upload"
    /\ GvExpiredAtEntry
    /\ ~Unwrap(Unwrap(gv).out).ok

\* in new(): after a failed refresh the authorization is attempted, and new()
\* fails only after that attempt
FallbackInNew ==
    InNewExpired =>
        /\ RefreshFailedInNew => Count("call_perform_authorization") = 1
        /\ pc = "init_failed" =>
              /\ Count("call_perform_authorization") = 1
              /\ result /= None /\ ~Unwrap(result).ok

\* C13 as stated: whenever a refresh fails, in new() or in the
\* get_valid_access_token called by upload(), the interactive authorization is
\* attempted, and new() fails only if that attempt failed.
C13_Original ==
    /\ FallbackInNew
    /\ RefreshFailedInUpload => Count("call_perform_authorization") > 0

RefreshErrors ==
    {"No refresh token available", "transport", "decode", "vendor error"} \cup SaveErrors

\* C13 amended: a failed refresh is followed by the interactive authorization
\* in new() only, where the failure is surfaced only if that authorization
\* fails; upload() never starts the authorization and never prompts: when the
\* refresh of its get_valid_access_token fails, that error is returned to
\* upload(), which ends with it before any upload request.
C13_FallbackOnlyInNew ==
    /\ FallbackInNew
    /\ op = "upload" =>
          /\ Count("call_perform_authorization") = 0
          /\ Count("prompt") = 0
    /\ RefreshFailedInUpload =>
          /\ pc = "upload_after_gvat"
          /\ ret = Unwrap(Unwrap(gv).out)
          /\ ret.err \in RefreshErrors
    /\ (/\ op = "upload" /\ pc = "ready" /\ result /= None
        /\ Count("call_refresh_access_token") = 1
        /\ Count("req_precreate") = 0
        /\ Unwrap(result).err /= "Local file not found") =>
          /\ ~Unwrap(result).ok
          /\ Unwrap(result).err \in RefreshErrors
          /\ \A j \in 1..Len(log) :
                log[j].kind \in {"call_refresh_access_token", "req_refresh"}

\* the vendor did not answer the refresh request of an upload()
C13_Witness ==
    /\ RefreshFailedInUpload
    /\ Unwrap(Unwrap(gv).out).err = "transport"
    /\ Count("req_refresh") = 1

\* ---------------------------------------------------------------------------
\* new() is running or has ended, and upload() has not been called yet
InNew == op /= "upload" /\ pc /= "start"

\* what new() found in config_file: nothing, or a complete credential
SeenAbsent == seen = Some(StoreAbsent)
SeenCredential == seen /= None /\ Unwrap(seen).kind = "json"
SeenExpiresAt == Unwrap(Unwrap(seen).cred).expires_at

AuthStarted == pc = "perform_authorization" \/ Count("call_perform_authorization") > 0

\* C14: new() starts the interactive authorization exactly when config_file is
\* missing or when the stored credential is expired and its refresh failed;
\* the refresh is called only for an expired stored credential; with a stored
\* credential that is not expired new() returns at once: no request, no
\* prompt, config_file and the credential untouched.
C14_AuthorizationOnlyWhenNeeded ==
    InNew =>
        /\ AuthStarted =>
              \/ SeenAbsent
              \/ /\ Count("warn_refresh_failed") = 1
                 /\ \E i \in At("call_refresh_access_token") :
                       \A j \in At("call_perform_authorization") : i < j
        /\ SeenAbsent => AuthStarted
        /\ (pc = "refresh_access_token" /\ stack = <<"new_after_refresh">>) =>
              /\ SeenCredential
              /\ now >= SeenExpiresAt
              /\ log = <<>>
        /\ (pc = "new_after_refresh" /\ ~ret.ok) => ~AuthStarted
        /\ pc = "init_failed" =>
              \/ seen /= None /\ Unwrap(seen).kind \notin {"absent", "json"}
              \/ Count("call_perform_authorization") = 1
        /\ (SeenCredential /\ pc = "ready") => now < SeenExpiresAt
        /\ (SeenCredential /\ now < SeenExpiresAt) =>
              /\ pc = "ready"
              /\ log = <<>>
              /\ store = Unwrap(seen)
              /\ token_data = Unwrap(seen).cred
              /\ result = None

\* new() returned at once on a stored credential that is not expired
C14_Witness ==
    InNew /\ SeenCredential /\ pc = "ready" /\ now > 0 /\ now < SeenExpiresAt

\* new() started the authorization after the refresh of an expired credential failed
C14_WitnessFallback ==
    InNew /\ AuthStarted /\ ~SeenAbsent /\ Count("warn_refresh_failed") = 1 /\ pc = "ready"

\* ---------------------------------------------------------------------------
\* new() found a config_file that exists and does not parse as a credential
SeenCorrupt == seen /= None /\ Unwrap(seen).kind \in {"garbage", "empty", "partial"}

\* C15: when config_file exists and does not parse, new() fails at once with
\* the load error: no authorization, no refresh, no request, and the file is
\* left as it was; the authorization that new() starts without a refresh
\* attempt is started for a missing file only.
C15_CorruptStoreFailsInit ==
    InNew =>
        /\ SeenCorrupt =>
              /\ pc = "init_failed"
              /\ result = Some(Err("load_tokens"))
              /\ log = <<>>
              /\ store = Unwrap(seen)
              /\ token_data = None
        /\ (AuthStarted /\ Count("call_refresh_access_token") = 0) => SeenAbsent
        /\ SeenAbsent => pc /= "init_failed" \/ Count("call_perform_authorization") = 1

\* new() failed on the partial file a failed write left behind
C15_Witness ==
    InNew /\ SeenCorrupt /\ pc = "init_failed" /\ store = StorePartial

\* ---------------------------------------------------------------------------
\* refresh_access_token has returned after the vendor answered its request with
\* the error body {error, error_description}
RefreshAnsweredWithErrorBody ==
    /\ pc \in {"new_after_refresh", "gvat_after_refresh"}
    /\ rf /= None
    /\ TokenAnswerKind(Unwrap(rf).resp) = "error body"

\* C16: a refresh answered with the error body {error, error_description}
\* fails with the vendor's error and its description, not with the error of a
\* transport or decoding failure.
C16_ErrorBodyIsVendorRejected ==
    RefreshAnsweredWithErrorBody => ret = Err("vendor error")

\* ---------------------------------------------------------------------------
\* upload() is acquiring its token (line 310); seen is config_file at its entry
UploadAcquiresToken == op = "upload" /\ seen /= None

\* C17 as stated: when upload() has its token, or the error that ends it,
\* config_file holds what it held when upload() was called.
C17_Original ==
    (UploadAcquiresToken /\ pc = "upload_after_gvat") => store = Unwrap(seen)

\* the token was expired when upload() asked for it, and the vendor accepted
\* the refresh request
UploadRefreshAccepted ==
    /\ gv /= None
    /\ IsSome(Unwrap(gv).td)
    /\ Unwrap(gv).now >= Unwrap(Unwrap(gv).td).expires_at
    /\ rf /= None
    /\ TokenAnswerKind(Unwrap(rf).resp) = "token body"
    /\ Count("req_refresh") = 1

StoreDuringUpload ==
    UploadAcquiresToken =>
        /\ store /= Unwrap(seen) =>
              /\ UploadRefreshAccepted
              /\ pc \in {"save_write", "gvat_after_refresh", "upload_after_gvat"}
              /\ store.kind \in {"empty", "partial", "json"}
              /\ store.kind = "json" =>
                    /\ store.cred = token_data
                    /\ Unwrap(token_data).access_token
                           = Unwrap(Unwrap(Unwrap(rf).resp).access_token)
        /\ GvValidAtEntry => store = Unwrap(seen)

\* past the token acquisition upload() writes no file: config_file does not
\* change, and the source file changes only by another process truncating it
UploadBodyWritesNothing ==
    (op = "upload" /\ up /= None /\ pc /= "ready") =>
        /\ store' = store
        /\ file' /= file => (pc = "precreate_wait" /\ pc' = pc /\ log' = log)

\* C17 amended: upload() never writes the source file; config_file changes
\* during upload() only through the save_tokens of a refresh that the vendor
\* accepted for a token expired at entry: it then holds the new credential, or
\* is empty or partial when the write failed; with a token valid at entry it is
\* unchanged.
C17_StoreWrittenOnlyByRefresh ==
    [](StoreDuringUpload) /\ [][UploadBodyWritesNothing]_vars

\* upload() refreshed its token and config_file holds the new credential
C17_Witness ==
    /\ UploadAcquiresToken
    /\ pc = "upload_after_gvat"
    /\ store /= Unwrap(seen)
    /\ store.kind = "json"

\* ---------------------------------------------------------------------------
\* perform_authorization has returned to new(); au holds what the vendor
\* answered to its code exchange and to its identity check
AuthReturned == pc = "new_after_auth" /\ au /= None

\* C18: perform_authorization returns Ok only if the code exchange was
\* answered with a token body without an error and the identity check with
\* errno 0; it returns an error, without asking for the identity, when the
\* exchange is not answered or answered with an error, and it returns the
\* error "Failed to get user info" when the identity check answers a non-zero
\* errno.
C18_AuthSucceedsOnlyIfVerified ==
    AuthReturned =>
        /\ ret.ok =>
              /\ Unwrap(au).exchange = "token body"
              /\ Unwrap(au).uinfo = "errno 0"
              /\ Count("req_token") = 1
              /\ \E i \in At("req_token") : \E j \in At("req_uinfo") : i < j
        /\ Unwrap(au).exchange \in {"no answer", "error body", "token body with error"} =>
              /\ ~ret.ok
              /\ Unwrap(au).uinfo = "unasked"
              /\ Count("req_uinfo") = 0
        /\ Unwrap(au).uinfo = "errno non-zero" => ret = Err("Failed to get user info")
        /\ Unwrap(au).uinfo = "no answer" => ~ret.ok

\* the authorization succeeded
C18_Witness ==
    AuthReturned /\ ret.ok /\ Unwrap(au).uinfo = "errno 0" /\ store.kind = "json"

\* the authorization failed on the identity check after an accepted exchange
C18_WitnessRejected ==
    AuthReturned /\ Unwrap(au).exchange = "token body" /\ Unwrap(au).uinfo = "errno non-zero"

\* ---------------------------------------------------------------------------
\* get_valid_access_token was entered with an expired credential that has no
\* refresh token, and has returned
ExpiredWithoutRefreshToken ==
    /\ GvExpiredAtEntry
    /\ Unwrap(Unwrap(gv).td).refresh_token = None

NoRefreshToken == Err("No refresh token available")

\* C19: with an expired credential and no refresh token stored,
\* get_valid_access_token returns the error "No refresh token available"
\* without sending a request and leaves the credential in memory and in the
\* store as they were; an upload() that ends with this error has sent no
\* request at all.
C19_NoRefreshTokenNoRequest ==
    /\ ExpiredWithoutRefreshToken =>
          /\ Unwrap(Unwrap(gv).out) = NoRefreshToken
          /\ ret = NoRefreshToken
          /\ \A j \in 1..Len(log) :
                j > Unwrap(gv).loglen => log[j].kind = "call_refresh_access_token"
          /\ store = Unwrap(gv).store
          /\ token_data = Unwrap(gv).td
          /\ op = "upload" => pc = "upload_after_gvat" /\ up = None
    /\ (op = "upload" /\ pc = "ready" /\ result = Some(NoRefreshToken)) =>
          /\ log = <<Ev("call_refresh_access_token")>>
          /\ up = None

\* upload() was called with an expired credential without a refresh token
C19_Witness ==
    /\ op = "upload"
    /\ ExpiredWithoutRefreshToken
    /\ pc = "upload_after_gvat"

\* and has ended with the error
C19_WitnessEnded ==
    op = "upload" /\ pc = "ready" /\ result = Some(NoRefreshToken)

\* ---------------------------------------------------------------------------
\* resolve_cloud189_credentials has returned
Resolved == pc = "main_resolved"

TrueWords == {<<"1">>, <<"t", "r", "u", "e">>, <<"y", "e", "s">>, <<"o", "n">>}
FalseWords == {<<"0">>, <<"f", "a", "l", "s", "e">>, <<"n", "o">>, <<"o", "f", "f">>}

\* C20: parse_env_bool returns Some(true) for a value that is one of 1, true,
\* yes, on in any casing between any whitespace, Some(false) for one of 0,
\* false, no, off, and None for every other value; use_qr resolves to the
\* configured value when there is one, else to the parsed variable, and to
\* false when the variable is unset or does not parse.
C20_ParseEnvBool ==
    Resolved =>
        LET e == Unwrap(env)
            expected == IF e.word \in TrueWords THEN Some(TRUE)
                        ELSE IF e.word \in FalseWords THEN Some(FALSE)
                        ELSE None
        IN  /\ (e.use_qr = None /\ e.var /= None) =>
                  /\ e.parsed = Some(expected)
                  /\ e.resolved = Some(IF expected = None THEN FALSE ELSE Unwrap(expected))
            /\ (e.use_qr = None /\ e.var = None) => e.resolved = Some(FALSE)
            /\ e.use_qr /= None => e.resolved = e.use_qr /\ e.parsed = None

\* CLOUD189_USE_QR = " Yes\n" with no configured value resolves to true
C20_Witness ==
    /\ Resolved
    /\ Unwrap(env).use_qr = None
    /\ Unwrap(env).var = Some(<<" ", "Y", "e", "s", "\n">>)
    /\ Unwrap(env).resolved = Some(TRUE)

\* an unparsable CLOUD189_USE_QR with no configured value resolves to false
C20_WitnessUnparsable ==
    /\ Resolved
    /\ Unwrap(env).use_qr = None
    /\ Unwrap(env).var = Some(<<"O", " ", "N">>)
    /\ Unwrap(env).parsed = Some(None)
    /\ Unwrap(env).resolved = Some(FALSE)

\* ---------------------------------------------------------------------------
\* save_tokens has returned, with Ok or with one of its two errors, and its
\* caller has not resumed yet
SaveCompleted ==
    /\ pc \in {"new_after_refresh", "gvat_after_refresh", "auth_after_save"}
    /\ \/ SaveReturnedOk
       \/ ~ret.ok /\ ret.err \in SaveErrors

\* C21: after every completed save_tokens, successful or failed, the store
\* file holds exactly the credential held in memory.
C21_MemoryEqualsStore ==
    SaveCompleted =>
        /\ store.kind \in {"absent", "json"}
        /\ store.cred = token_data

\* the same, for the saves that returned Ok only
C21_AfterSuccessfulSave ==
    SaveReturnedOk => store.kind = "json" /\ store.cred = token_data

\* ---------------------------------------------------------------------------
\* perform_authorization, entered by new() because config_file was missing
\* (no file, no credential in memory), has returned
FirstAuthReturned == InNew /\ SeenAbsent /\ AuthReturned

\* the code exchange was not answered with a token body, or the identity check
\* was asked and not answered with errno 0
ExchangeOrIdentityFailed ==
    \/ Unwrap(au).exchange \in {"no answer", "error body", "token body with error"}
    \/ Unwrap(au).uinfo \in {"no answer", "errno non-zero"}

\* C22: when perform_authorization returns an error of the code exchange or
\* of the identity check, config_file and the credential in memory are what
\* they were when it was entered; here for the authorization that new()
\* starts without a store file.
C22_FailedAuthChangesNothing ==
    (FirstAuthReturned /\ ~ret.ok /\ ExchangeOrIdentityFailed) =>
        /\ store = StoreAbsent
        /\ token_data = None

\* the same, for the failures that precede save_tokens: no line read from
\* stdin, or a code exchange that is not answered with a token body
C22_FailedExchangeChangesNothing ==
    (FirstAuthReturned /\ Unwrap(au).exchange /= "token body") =>
        /\ ~ret.ok
        /\ store = StoreAbsent
        /\ token_data = None

\* the identity check answered a non-zero errno and the credential of the
\* code exchange is in config_file and in memory
C22_UnverifiedPersisted ==
    /\ FirstAuthReturned
    /\ ret = Err("Failed to get user info")
    /\ store.kind = "json"
    /\ token_data = store.cred

\* ---------------------------------------------------------------------------
UploadRunning == op = "upload" /\ pc /= "ready"
UploadEnded == op = "upload" /\ pc = "ready" /\ result /= None

\* the requests of one upload(): at most one precreate, at most one chunk
\* request per block-list entry, at most one create; it ends with true or with
\* an error
UploadRequestBounds ==
    op = "upload" =>
        /\ Count("req_precreate") <= 1
        /\ Count("req_create") <= 1
        /\ up = None => Count("req_chunk") = 0 /\ Count("req_create") = 0
        /\ up /= None => Count("req_chunk") <= Len(Unwrap(up).block_list)
        /\ UploadEnded => (Unwrap(result).ok => Unwrap(result) = Ok(1))

\* C23: when every request and every read returns, an upload() that has
\* started ends, with true or with an error, and has by then sent at most one
\* precreate, at most len(block_list) chunk requests and at most one create.
C23_UploadTerminates ==
    [](UploadRequestBounds) /\ (UploadRunning ~> UploadEnded)

\* an upload() of three chunks has ended with true
C23_Witness ==
    /\ UploadEnded
    /\ Unwrap(result) = Ok(1)
    /\ Count("req_chunk") = 3
    /\ Len(Unwrap(up).block_list) = 3

\* ---------------------------------------------------------------------------
\* the items the backup loop has taken up for which the archive was created
\* and the fan-out over the uploaders was entered and is over
InBackup == bk /= None
FannedOut ==
    {k \in 1..Len(Unwrap(bk).rec) :
        /\ Unwrap(bk).rec[k].fanout
        /\ (k < Unwrap(bk).i \/ pc = "backup_done")}

UploadersTried(k) ==
    [j \in 1..Len(Unwrap(bk).rec[k].uploads) |-> Unwrap(bk).rec[k].uploads[j].uploader]
AllUploaded(k) ==
    \A j \in 1..Len(Unwrap(bk).rec[k].uploads) : Unwrap(bk).rec[k].uploads[j].ok

\* the archive is removed only after a complete fan-out without a failure and
\* without keep_archive = true, and is there after any failed upload
ArchiveCleanup(k) ==
    LET r == Unwrap(bk).rec[k]
    IN  /\ r.archive = "removed" =>
              /\ UploadersTried(k) = Unwrap(bk).uploaders
              /\ AllUploaded(k)
              /\ r.keep_archive /= Some(TRUE)
        /\ ~AllUploaded(k) => r.archive = "exists"
        /\ r.keep_archive = Some(TRUE) => r.archive = "exists"

PathNotUtf8(k) ==
    /\ pc = "backup_done"
    /\ k = Unwrap(bk).i
    /\ Unwrap(bk).result = Some(Err("Archive path is not valid UTF-8"))

C24_WitnessRemoved ==
    /\ InBackup
    /\ \E k \in FannedOut :
          /\ Len(Unwrap(bk).rec[k].uploads) = 2
          /\ AllUploaded(k)
          /\ Unwrap(bk).rec[k].archive = "removed"

\* ---------------------------------------------------------------------------
MainReturned == InBackup /\ pc = "backup_done"

\* C25: when main returns, every backup item has been taken up, whatever
\* failed for the items before it, and main returns an error exactly when a
\* failure was recorded.
C25_FailuresDoNotStopTheRun ==
    MainReturned =>
        /\ Len(Unwrap(bk).rec) = Unwrap(bk).n
        /\ ~Unwrap(Unwrap(bk).result).ok <=> Unwrap(bk).failures /= << >>

\* the same for the runs that reach the end of the loop: the failures that
\* are recorded (command, source path not found or not a file or directory,
\* archive creation, upload) do not stop the run
C25_RecordedFailuresDoNotStop ==
    (MainReturned /\ Unwrap(Unwrap(bk).result).err \in {"", "Backup finished with failures"}) =>
        /\ Len(Unwrap(bk).rec) = Unwrap(bk).n
        /\ ~Unwrap(Unwrap(bk).result).ok <=> Unwrap(bk).failures /= << >>
        /\ \A f \in 1..Len(Unwrap(bk).failures) : Unwrap(bk).failures[f].item <= Unwrap(bk).n

\* main returned at the first of two items, with an error and no failure recorded
C25_AbortedAtFirstItem ==
    /\ MainReturned
    /\ Unwrap(bk).n = 2
    /\ Len(Unwrap(bk).rec) = 1
    /\ Unwrap(bk).failures = << >>
    /\ Unwrap(bk).result = Some(Err("Missing source_path/source_dir in backup item"))

====
